---- MODULE Spec2Model ----
(***************************************************************************)
(* Model of the reqline parser (src/parser/reqlineParser.js, whose text is *)
(* the second part of src/src/parser/__tests__/reqlineParser.test.js) and  *)
(* of executeRequest (src/src/services/requestService.js).                 *)
(* A string is a sequence of one-character strings; positions are 1-based  *)
(* here and 0-based in the source.                                         *)
(***************************************************************************)
EXTENDS Integers, Sequences, FiniteSets, TLC

\* parseReqline; previous is the result of the call before the current one
VARIABLES shape, reqline, pc, segments, i, parsedSegments, result, error,
          previous
\* executeRequest; reply is the settlement of the axios promise, outcome
\* what executeRequest returned or threw
VARIABLES parsedRequest, xpc, axiosConfig, requestStartTimestamp, axiosCalls,
          reply, outcome

pvars == <<shape, reqline, pc, segments, i, parsedSegments, result, error,
           previous>>
xvars == <<parsedRequest, xpc, axiosConfig, requestStartTimestamp, axiosCalls,
           reply, outcome>>
vars == <<pvars, xvars>>

(***************************************************************************)
(* Words of the language and of the test inputs.                           *)
(***************************************************************************)
SP == " "
TAB == "\t"
PIPE == "|"

HTTP == <<"H", "T", "T", "P">>
URL == <<"U", "R", "L">>
HEADERS == <<"H", "E", "A", "D", "E", "R", "S">>
QUERY == <<"Q", "U", "E", "R", "Y">>
BODY == <<"B", "O", "D", "Y">>
GET == <<"G", "E", "T">>
POST == <<"P", "O", "S", "T">>

VALID_METHODS == <<GET, POST>>
REQUIRED_KEYWORDS == <<HTTP, URL>>
OPTIONAL_KEYWORDS == <<HEADERS, QUERY, BODY>>
ALL_KEYWORDS == REQUIRED_KEYWORDS \o OPTIONAL_KEYWORDS

HttpScheme == <<"h", "t", "t", "p", ":", "/", "/">>
HttpsScheme == <<"h", "t", "t", "p", "s", ":", "/", "/">>
JsonFormat == <<"J", "S", "O", "N", " ", "f", "o", "r", "m", "a", "t">>

(***************************************************************************)
(* String primitives of the runtime, as the parser uses them.              *)
(***************************************************************************)
UpperLetters ==
  <<"A", "B", "C", "D", "E", "F", "G", "H", "I", "J", "K", "L", "M",
    "N", "O", "P", "Q", "R", "S", "T", "U", "V", "W", "X", "Y", "Z">>
LowerLetters ==
  <<"a", "b", "c", "d", "e", "f", "g", "h", "i", "j", "k", "l", "m",
    "n", "o", "p", "q", "r", "s", "t", "u", "v", "w", "x", "y", "z">>

Range(s) == {s[k] : k \in DOMAIN s}

Includes(arr, x) == \E k \in DOMAIN arr : arr[k] = x

ToLowerChar(c) ==
  IF \E k \in DOMAIN UpperLetters : UpperLetters[k] = c
  THEN LowerLetters[CHOOSE k \in DOMAIN UpperLetters : UpperLetters[k] = c]
  ELSE c

ToUpperChar(c) ==
  IF \E k \in DOMAIN LowerLetters : LowerLetters[k] = c
  THEN UpperLetters[CHOOSE k \in DOMAIN LowerLetters : LowerLetters[k] = c]
  ELSE c

ToLowerCase(s) == [k \in DOMAIN s |-> ToLowerChar(s[k])]
ToUpperCase(s) == [k \in DOMAIN s |-> ToUpperChar(s[k])]

IsWhitespace(c) == c \in {SP, TAB}

RECURSIVE TrimStart(_)
TrimStart(s) ==
  IF s # <<>> /\ IsWhitespace(Head(s)) THEN TrimStart(Tail(s)) ELSE s

RECURSIVE TrimEnd(_)
TrimEnd(s) ==
  IF s # <<>> /\ IsWhitespace(s[Len(s)])
  THEN TrimEnd(SubSeq(s, 1, Len(s) - 1))
  ELSE s

Trim(s) == TrimEnd(TrimStart(s))

StartsWith(s, prefix) ==
  Len(s) >= Len(prefix) /\ SubSeq(s, 1, Len(prefix)) = prefix

StringIncludes(s, sub) ==
  \E k \in 0..(Len(s) - Len(sub)) : SubSeq(s, k + 1, k + Len(sub)) = sub

\* s.split(' ')[0]: the text before the first space, or all of s
RECURSIVE SplitFirst(_)
SplitFirst(s) ==
  IF s = <<>> \/ Head(s) = SP THEN <<>> ELSE <<Head(s)>> \o SplitFirst(Tail(s))

(***************************************************************************)
(* Errors.  An Error carries the message of the source; a message built    *)
(* from a template carries the interpolated text in arg.                   *)
(***************************************************************************)
Err(msg) == [msg |-> msg, arg |-> <<>>]
ErrArg(msg, arg) == [msg |-> msg, arg |-> arg]
NoError == Err("")

InvalidJsonMessage(sectionName) ==
  CASE sectionName = HEADERS -> "Invalid JSON format in HEADERS section"
    [] sectionName = QUERY -> "Invalid JSON format in QUERY section"
    [] sectionName = BODY -> "Invalid JSON format in BODY section"

MissingRequiredMessage(keyword) ==
  CASE keyword = HTTP -> "Missing required HTTP keyword"
    [] keyword = URL -> "Missing required URL keyword"

\* error.message.includes('JSON format')
MessageIncludesJsonFormat(e) ==
  \/ e.msg \in {InvalidJsonMessage(HEADERS), InvalidJsonMessage(QUERY),
                InvalidJsonMessage(BODY)}
  \/ StringIncludes(e.arg, JsonFormat)

(***************************************************************************)
(* JSON.parse on the subset of JSON made of objects, arrays, strings       *)
(* without escapes, integers and the three literals.  The decoded value is *)
(* kept as its kind and its text without insignificant whitespace.         *)
(***************************************************************************)
Digits == {"0", "1", "2", "3", "4", "5", "6", "7", "8", "9"}
JsonFail == [ok |-> FALSE, pos |-> 0, kind |-> "", val |-> <<>>]
JsonOk(pos, kind, val) == [ok |-> TRUE, pos |-> pos, kind |-> kind, val |-> val]

RECURSIVE SkipWs(_, _)
SkipWs(s, p) ==
  IF p <= Len(s) /\ IsWhitespace(s[p]) THEN SkipWs(s, p + 1) ELSE p

RECURSIVE JsonStringEnd(_, _)
\* position of the quote that closes a string whose text starts at p, or 0
JsonStringEnd(s, p) ==
  IF p > Len(s) \/ s[p] = TAB THEN 0
  ELSE IF s[p] = "\"" THEN p
  ELSE JsonStringEnd(s, p + 1)

JsonString(s, p) ==
  LET q == JsonStringEnd(s, p + 1)
  IN  IF q = 0 THEN JsonFail ELSE JsonOk(q + 1, "string", SubSeq(s, p, q))

RECURSIVE DigitsEnd(_, _)
DigitsEnd(s, p) ==
  IF p <= Len(s) /\ s[p] \in Digits THEN DigitsEnd(s, p + 1) ELSE p

JsonNumber(s, p) ==
  LET d == IF s[p] = "-" THEN p + 1 ELSE p
      q == DigitsEnd(s, d)
  IN  IF q = d \/ (s[d] = "0" /\ q > d + 1)
      THEN JsonFail
      ELSE JsonOk(q, "number", SubSeq(s, p, q - 1))

JsonLiteral(s, p) ==
  LET Is(w) == Len(s) >= p + Len(w) - 1 /\ SubSeq(s, p, p + Len(w) - 1) = w
      true == <<"t", "r", "u", "e">>
      false == <<"f", "a", "l", "s", "e">>
      null == <<"n", "u", "l", "l">>
  IN  IF Is(true) THEN JsonOk(p + 4, "boolean", true)
      ELSE IF Is(false) THEN JsonOk(p + 5, "boolean", false)
      ELSE IF Is(null) THEN JsonOk(p + 4, "null", null)
      ELSE JsonFail

RECURSIVE JsonValue(_, _)
RECURSIVE JsonMembers(_, _, _)
RECURSIVE JsonElements(_, _, _)

JsonValue(s, p) ==
  IF p > Len(s) THEN JsonFail
  ELSE IF s[p] = "{"
  THEN LET q == SkipWs(s, p + 1)
       IN  IF q <= Len(s) /\ s[q] = "}"
           THEN JsonOk(q + 1, "object", <<"{", "}">>)
           ELSE JsonMembers(s, q, <<"{">>)
  ELSE IF s[p] = "["
  THEN LET q == SkipWs(s, p + 1)
       IN  IF q <= Len(s) /\ s[q] = "]"
           THEN JsonOk(q + 1, "array", <<"[", "]">>)
           ELSE JsonElements(s, q, <<"[">>)
  ELSE IF s[p] = "\"" THEN JsonString(s, p)
  ELSE IF s[p] \in Digits \cup {"-"} THEN JsonNumber(s, p)
  ELSE JsonLiteral(s, p)

JsonMembers(s, p, acc) ==
  IF p > Len(s) \/ s[p] # "\"" THEN JsonFail
  ELSE LET k == JsonString(s, p)
           c == SkipWs(s, k.pos)
           v == JsonValue(s, SkipWs(s, c + 1))
           e == SkipWs(s, v.pos)
           sofar == acc \o k.val \o <<":">> \o v.val
       IN  IF ~k.ok \/ c > Len(s) \/ s[c] # ":" THEN JsonFail
           ELSE IF ~v.ok \/ e > Len(s) THEN JsonFail
           ELSE IF s[e] = "}" THEN JsonOk(e + 1, "object", sofar \o <<"}">>)
           ELSE IF s[e] = "," THEN JsonMembers(s, SkipWs(s, e + 1), sofar \o <<",">>)
           ELSE JsonFail

JsonElements(s, p, acc) ==
  LET v == JsonValue(s, p)
      e == SkipWs(s, v.pos)
      sofar == acc \o v.val
  IN  IF ~v.ok \/ e > Len(s) THEN JsonFail
      ELSE IF s[e] = "]" THEN JsonOk(e + 1, "array", sofar \o <<"]">>)
      ELSE IF s[e] = "," THEN JsonElements(s, SkipWs(s, e + 1), sofar \o <<",">>)
      ELSE JsonFail

JSONparse(text) ==
  LET v == JsonValue(text, SkipWs(text, 1))
  IN  IF v.ok /\ SkipWs(text, v.pos) > Len(text)
      THEN [ok |-> TRUE, kind |-> v.kind, val |-> v.val]
      ELSE [ok |-> FALSE, kind |-> "", val |-> <<>>]

\* the messages a failed JSON.parse may carry: engines differ, and the
\* newer ones quote the source text in the message
DecoderErrors(text) ==
  { Err("Unexpected token in JSON at position"),
    ErrArg("Unexpected token, \"...\" is not valid JSON", text) }

EmptyObject == [kind |-> "object", val |-> <<"{", "}">>]

\* typeof parsed
TypeOf(kind) == IF kind \in {"object", "array", "null"} THEN "object" ELSE kind

\* the shape test without its Array.isArray clause
WrongShapeArraysPass(kind) == TypeOf(kind) # "object" \/ kind = "null"

\* typeof parsed !== 'object' || parsed === null || Array.isArray(parsed)
WrongShape(kind) == TypeOf(kind) # "object" \/ kind = "null" \/ kind = "array"

\* parseJsonSection: the set of outcomes, one per decoder message
ParseJsonSection(jsonString, sectionName) ==
  LET parsed == JSONparse(jsonString)
      own == Err(InvalidJsonMessage(sectionName))
      Catch(e) == IF MessageIncludesJsonFormat(e) THEN e ELSE own
  IN  IF parsed.ok
      THEN IF WrongShape(parsed.kind)
           THEN {[ok |-> FALSE, value |-> EmptyObject, error |-> Catch(own)]}
           ELSE {[ok |-> TRUE,
                  value |-> [kind |-> parsed.kind, val |-> parsed.val],
                  error |-> NoError]}
      ELSE {[ok |-> FALSE, value |-> EmptyObject, error |-> Catch(e)] :
               e \in DecoderErrors(jsonString)}

(***************************************************************************)
(* The parser's functions.  Each returns ok with its value, or the error   *)
(* it throws.                                                              *)
(***************************************************************************)
\* segments.length < 1
TooFewOffByOne(segs) == Len(segs) < 1

\* segments.length < 2
TooFew(segs) == Len(segs) < 2

\* a scan that keeps the text after the last pipe whatever it is
KeepTailAlways(current) == TRUE

\* if (current.trim()): the text after the last pipe is kept unless blank
KeepTail(current) == Trim(current) # <<>>

SplitFail(e) == [ok |-> FALSE, segments |-> <<>>, error |-> e]

\* the piece scanned so far is inside a double-quoted string
InQuotes(current) ==
  Cardinality({q \in DOMAIN current : current[q] = "\""}) % 2 = 1

RECURSIVE SplitScanQuoted(_, _, _, _)
\* a scan that takes a pipe inside double quotes as text
SplitScanQuoted(s, p, current, segs) ==
  IF p <= Len(s)
  THEN IF s[p] = PIPE /\ ~InQuotes(current)
       THEN IF p = 1 \/ s[p - 1] # SP
            THEN SplitFail(Err("Invalid spacing around pipe delimiter"))
            ELSE IF p = Len(s) \/ s[p + 1] # SP
            THEN SplitFail(Err("Invalid spacing around pipe delimiter"))
            ELSE SplitScanQuoted(s, p + 2, <<>>, Append(segs, Trim(current)))
       ELSE SplitScanQuoted(s, p + 1, Append(current, s[p]), segs)
  ELSE LET all == IF KeepTail(current)
                  THEN Append(segs, Trim(current))
                  ELSE segs
       IN  IF TooFew(all)
           THEN SplitFail(Err("Missing required HTTP and URL sections"))
           ELSE [ok |-> TRUE, segments |-> all, error |-> NoError]

RECURSIVE SplitScan(_, _, _, _)
SplitScan(s, p, current, segs) ==
  IF p <= Len(s)
  THEN IF s[p] = PIPE
       THEN IF p = 1 \/ s[p - 1] # SP
            THEN SplitFail(Err("Invalid spacing around pipe delimiter"))
            ELSE IF p = Len(s) \/ s[p + 1] # SP
            THEN SplitFail(Err("Invalid spacing around pipe delimiter"))
            ELSE SplitScan(s, p + 2, <<>>, Append(segs, Trim(current)))
       ELSE SplitScan(s, p + 1, Append(current, s[p]), segs)
  ELSE LET all == IF KeepTail(current)
                  THEN Append(segs, Trim(current))
                  ELSE segs
       IN  IF TooFew(all)
           THEN SplitFail(Err("Missing required HTTP and URL sections"))
           ELSE [ok |-> TRUE, segments |-> all, error |-> NoError]

SplitByPipe(s) == SplitScan(s, 1, <<>>, <<>>)

RECURSIVE IndexOfSpaceOrEnd(_, _)
\* the search that answers the end of the text when it has no space
IndexOfSpaceOrEnd(s, p) ==
  IF p > Len(s) THEN p
  ELSE IF s[p] = SP THEN p
  ELSE IndexOfSpaceOrEnd(s, p + 1)

RECURSIVE IndexOfSpace(_, _)
\* the first position of a space at or after p, or 0 (the source's -1)
IndexOfSpace(s, p) ==
  IF p > Len(s) THEN 0
  ELSE IF s[p] = SP THEN p
  ELSE IndexOfSpace(s, p + 1)

\* the literals without 'body'
LowercaseKeywordsButBody ==
  { <<"h", "t", "t", "p">>, <<"u", "r", "l">>,
    <<"h", "e", "a", "d", "e", "r", "s">>, <<"q", "u", "e", "r", "y">> }

\* the literals 'http', 'url', 'headers', 'query', 'body' of parseSegment
LowercaseKeywords ==
  { <<"h", "t", "t", "p">>, <<"u", "r", "l">>,
    <<"h", "e", "a", "d", "e", "r", "s">>, <<"q", "u", "e", "r", "y">>,
    <<"b", "o", "d", "y">> }

SegFail(e) == [ok |-> FALSE, keyword |-> <<>>, value |-> <<>>, error |-> e]

\* the keyword validation of parseSegment: the error thrown, or NoError
KeywordErrorLenient(keyword) ==
  IF ~Includes(ALL_KEYWORDS, keyword) /\ ToLowerCase(keyword) \in LowercaseKeywords
  THEN Err("Keywords must be uppercase")
  ELSE NoError

KeywordError(keyword) ==
  IF ~Includes(ALL_KEYWORDS, keyword)
  THEN IF ToLowerCase(keyword) \in LowercaseKeywords
       THEN Err("Keywords must be uppercase")
       ELSE ErrArg("Invalid keyword: ", keyword)
  ELSE NoError

\* value.startsWith('  ')
MultipleSpacesFromThree(value) == StartsWith(value, <<SP, SP>>)

\* value.startsWith(' ')
MultipleSpaces(value) == StartsWith(value, <<SP>>)

\* the HTTP value check whose case test knows GET only
MethodErrorGetOnly(value) ==
  IF ~Includes(VALID_METHODS, value)
  THEN IF ToUpperCase(value) = GET
       THEN Err("HTTP method must be uppercase")
       ELSE Err("Invalid HTTP method. Only GET and POST are supported")
  ELSE NoError

\* the HTTP value check of parseSegment
MethodError(value) ==
  IF ~Includes(VALID_METHODS, value)
  THEN IF ToUpperCase(value) = GET \/ ToUpperCase(value) = POST
       THEN Err("HTTP method must be uppercase")
       ELSE Err("Invalid HTTP method. Only GET and POST are supported")
  ELSE NoError

\* the URL value check that compares the prefix in lowercase
UrlErrorAnyCase(value) ==
  IF Trim(value) = <<>> THEN Err("URL cannot be empty")
  ELSE IF ~StartsWith(ToLowerCase(value), HttpScheme)
          /\ ~StartsWith(ToLowerCase(value), HttpsScheme)
  THEN Err("URL must start with http:// or https://")
  ELSE NoError

\* the URL value check of parseSegment
UrlError(value) ==
  IF Trim(value) = <<>> THEN Err("URL cannot be empty")
  ELSE IF ~StartsWith(value, HttpScheme) /\ ~StartsWith(value, HttpsScheme)
  THEN Err("URL must start with http:// or https://")
  ELSE NoError

ParseSegment(segment) ==
  LET trimmed == Trim(segment)
      spaceIndex == IndexOfSpace(trimmed, 1)
      keyword == SubSeq(trimmed, 1, spaceIndex - 1)
      value == SubSeq(trimmed, spaceIndex + 1, Len(trimmed))
  IN  IF trimmed = <<>> THEN SegFail(Err("Empty segment found"))
      ELSE IF spaceIndex = 0 THEN SegFail(Err("Missing space after keyword"))
      ELSE IF KeywordError(keyword) # NoError THEN SegFail(KeywordError(keyword))
      ELSE IF MultipleSpaces(value)
      THEN SegFail(Err("Multiple spaces found where single space expected"))
      ELSE IF keyword = HTTP /\ MethodError(value) # NoError
      THEN SegFail(MethodError(value))
      ELSE IF keyword = URL /\ UrlError(value) # NoError
      THEN SegFail(UrlError(value))
      ELSE [ok |-> TRUE, keyword |-> keyword, value |-> Trim(value),
            error |-> NoError]

\* a test that sees only the required keywords
TruthyRequiredOnly(obj, keyword) ==
  keyword \in Range(REQUIRED_KEYWORDS) /\ keyword \in DOMAIN obj /\ obj[keyword] # <<>>

\* parsedSegments[keyword] as a condition: defined and not the empty string
Truthy(obj, keyword) == keyword \in DOMAIN obj /\ obj[keyword] # <<>>

\* a structural validation that lets every order through
ValidateKeywordOrderOff(segs) == NoError

\* validateKeywordOrder with the two messages of its inner test exchanged
ValidateKeywordOrderSwapped(segs) ==
  IF Len(segs) < 2 THEN Err("Missing required HTTP and URL sections")
  ELSE LET firstKeyword == SplitFirst(segs[1])
           secondKeyword == SplitFirst(segs[2])
       IN  IF firstKeyword # HTTP THEN Err("HTTP keyword must be first")
           ELSE IF secondKeyword # URL
           THEN IF ~Includes(ALL_KEYWORDS, secondKeyword)
                THEN Err("Missing required URL keyword")
                ELSE Err("URL keyword must be second")
           ELSE NoError

\* the error validateKeywordOrder throws, or NoError
ValidateKeywordOrder(segs) ==
  IF Len(segs) < 2 THEN Err("Missing required HTTP and URL sections")
  ELSE LET firstKeyword == SplitFirst(segs[1])
           secondKeyword == SplitFirst(segs[2])
       IN  IF firstKeyword # HTTP THEN Err("HTTP keyword must be first")
           ELSE IF secondKeyword # URL
           THEN IF ~Includes(ALL_KEYWORDS, secondKeyword)
                THEN Err("URL keyword must be second")
                ELSE Err("Missing required URL keyword")
           ELSE NoError

\* the error validateRequiredKeywords throws, or NoError
ValidateRequiredKeywords(parsed) ==
  IF ~Truthy(parsed, REQUIRED_KEYWORDS[1])
  THEN Err(MissingRequiredMessage(REQUIRED_KEYWORDS[1]))
  ELSE IF ~Truthy(parsed, REQUIRED_KEYWORDS[2])
  THEN Err(MissingRequiredMessage(REQUIRED_KEYWORDS[2]))
  ELSE NoError

(***************************************************************************)
(* Input lines.  A line is written as pieces (keyword token, gap, value    *)
(* text) joined by separators, between a lead and a tail; shape records    *)
(* how the line was written, reqline is the string the parser receives.    *)
(***************************************************************************)
MaxSegs == 3

Piece(kw, gap, val) == [kw |-> kw, gap |-> gap, val |-> val]
PieceText(p) == p.kw \o p.gap \o p.val

One == <<SP>>
Two == <<SP, SP>>
StdSep == <<SP, PIPE, SP>>

UrlA == HttpsScheme \o <<"a">>
UrlB == HttpScheme \o <<"b">>
UrlSpaced == HttpsScheme \o <<"a", " ", "b">>
NoScheme == <<"a", ".", "c">>
UpperScheme == <<"H", "T", "T", "P", ":", "/", "/", "a">>
PUT == <<"P", "U", "T">>
FOO == <<"F", "O", "O">>

ObjEmpty == <<"{", "}">>
ObjK == <<"{", "\"", "k", "\"", ":", " ", "1", "}">>
ObjNested == <<"{", "\"", "a", "\"", ":", "[", "1", ",", " ", "n", "u", "l", "l", "]", "}">>
ArrText == <<"[", "1", "]">>
StrText == <<"\"", "s", "\"">>
NumText == <<"1">>
TrueText == <<"t", "r", "u", "e">>
NullText == <<"n", "u", "l", "l">>
BadText == <<"{", "k", "}">>

\* values with a pipe inside
UrlPiped == HttpsScheme \o <<"a", "|", "b">>
UrlThenQuery == UrlA \o StdSep \o QUERY \o <<SP>> \o ObjEmpty
UrlThenWord == UrlA \o StdSep \o <<"b">>
ObjPiped == <<"{", "\"", "k", "\"", ":", " ", "\"", "a", " ", "|", " ", "b", "\"", "}">>
PipedTexts == {UrlPiped, UrlThenQuery, UrlThenWord, ObjPiped}

JsonTexts ==
  {ObjEmpty, ObjK, ObjNested, ArrText, StrText, NumText, TrueText, NullText,
   BadText, JsonFormat}

KeywordTokens ==
  {HTTP, URL, HEADERS, QUERY, BODY, ToLowerCase(HTTP), <<"U", "r", "l">>,
   ToLowerCase(BODY), FOO}

ValueTexts ==
  {GET, POST, ToLowerCase(GET), <<"G", "e", "t">>, ToLowerCase(POST), PUT,
   UrlA, UrlB, UrlSpaced, NoScheme, UpperScheme, <<TAB>> \o GET, <<TAB>> \o ObjK}
  \cup JsonTexts \cup PipedTexts

\* pieces combined freely into lines of up to MaxSegs segments
MixedPieces ==
  { Piece(HTTP, One, GET), Piece(HTTP, One, POST), Piece(HTTP, One, PUT),
    Piece(URL, One, UrlA), Piece(URL, One, NoScheme), Piece(URL, Two, UrlA),
    Piece(URL, <<>>, <<>>),
    Piece(HEADERS, One, ObjK), Piece(HEADERS, One, ArrText),
    Piece(QUERY, One, ObjEmpty), Piece(QUERY, One, JsonFormat),
    Piece(BODY, One, ObjNested), Piece(BODY, One, NullText),
    Piece(ToLowerCase(HTTP), One, GET), Piece(FOO, One, ObjEmpty) }

\* a well-formed line, of which the spaced lines take a prefix
Canonical ==
  << Piece(HTTP, One, GET), Piece(URL, One, UrlA), Piece(QUERY, One, ObjEmpty),
     Piece(HEADERS, One, ObjK), Piece(BODY, One, ObjNested) >>

Separators ==
  {StdSep, <<PIPE, SP>>, <<SP, PIPE>>, <<SP, SP, PIPE, SP>>,
   <<SP, PIPE, SP, SP>>, <<SP, PIPE, SP, PIPE, SP>>}
Leads == {<<>>, <<SP>>, <<PIPE, SP>>}
Tails == {<<>>, <<SP>>, StdSep, <<SP, PIPE>>}

Line(parts, seps, lead, tail) ==
  [parts |-> parts, seps |-> seps, lead |-> lead, tail |-> tail]

Plain(parts) ==
  Line(parts, [k \in 1..(Len(parts) - 1) |-> StdSep], <<>>, <<>>)

\* lines of mixed pieces, regularly spaced
MixedLine(sh) ==
  \E n \in 1..MaxSegs : \E parts \in [1..n -> MixedPieces] : sh = Plain(parts)

\* a prefix of the canonical line under every spacing
MaxSpaced == 4
Min(a, b) == IF a < b THEN a ELSE b
SpacedLine(sh) ==
  \E n \in 0..Min(MaxSpaced, Len(Canonical)) :
    \E seps \in [1..(IF n = 0 THEN 0 ELSE n - 1) -> Separators] :
      \E lead \in Leads, tail \in Tails :
        sh = Line(SubSeq(Canonical, 1, n), seps, lead, tail)

\* one piece of any keyword token, gap and value in first, second or third place
ProbeLine(sh) ==
  \E kw \in KeywordTokens, gap \in {<<>>, One, Two}, val \in ValueTexts :
    LET p == Piece(kw, gap, val)
    IN  \/ sh = Plain(<<p, Piece(URL, One, UrlA)>>)
        \/ sh = Plain(<<Piece(HTTP, One, GET), p>>)
        \/ sh = Plain(<<Piece(HTTP, One, POST), Piece(URL, One, UrlB), p>>)

\* a keyword token with nothing after it, or with spaces only, in last place,
\* and a bare token in first place
BareLine(sh) ==
  \E kw \in KeywordTokens :
    \/ \E gap \in {<<>>, One, Two} :
         \/ sh = Plain(<<Piece(HTTP, One, GET), Piece(kw, gap, <<>>)>>)
         \/ sh = Plain(<<Piece(HTTP, One, POST), Piece(URL, One, UrlB),
                         Piece(kw, gap, <<>>)>>)
    \/ sh = Plain(<<Piece(kw, <<>>, <<>>), Piece(URL, One, UrlA)>>)

\* HTTP and URL followed by optional sections in every order
SectionTexts == {ObjEmpty, ObjK, ArrText}
RECURSIVE Orders(_)
Orders(S) ==
  {<<>>} \cup UNION { { <<Piece(kw, One, val)>> \o rest : val \in SectionTexts,
                                                        rest \in Orders(S \ {kw}) } :
                        kw \in S }
OrderedLine(sh) ==
  \E m \in {GET, POST}, rest \in Orders(Range(OPTIONAL_KEYWORDS)) :
    sh = Plain(<<Piece(HTTP, One, m), Piece(URL, One, UrlA)>> \o rest)

RECURSIVE Joined(_, _, _)
Joined(parts, seps, k) ==
  IF k > Len(parts) THEN <<>>
  ELSE PieceText(parts[k])
       \o (IF k < Len(parts) THEN seps[k] ELSE <<>>)
       \o Joined(parts, seps, k + 1)

Render(sh) == sh.lead \o Joined(sh.parts, sh.seps, 1) \o sh.tail

(***************************************************************************)
(* executeRequest.  An object is a function from its keys; a value of the  *)
(* runtime that is not text is written as a word: "undefined", "false",    *)
(* "0"; "" is the empty string.                                            *)
(***************************************************************************)
ContentType == <<"C", "o", "n", "t", "e", "n", "t", "-", "T", "y", "p", "e">>
Authorization == <<"A", "u", "t", "h">>
TimeoutMs == 30000

NoKeys == <<>>
Falsy(v) == v \in {"undefined", "null", "false", "0", ""}
\* obj[key], undefined when the key is absent
Get(obj, key) == IF key \in DOMAIN obj THEN obj[key] ELSE "undefined"

\* {...obj, key: value}
Spread(obj, key, value) ==
  [k \in DOMAIN obj \cup {key} |-> IF k = key THEN value ELSE obj[k]]

AfterScheme(u) ==
  IF StartsWith(u, HttpsScheme) THEN SubSeq(u, Len(HttpsScheme) + 1, Len(u))
  ELSE IF StartsWith(u, HttpScheme) THEN SubSeq(u, Len(HttpScheme) + 1, Len(u))
  ELSE <<>>

\* the text before the first "/" of rest
Host(rest) ==
  IF Includes(rest, "/")
  THEN SubSeq(rest, 1, (CHOOSE p \in DOMAIN rest :
                          rest[p] = "/" /\ \A q \in 1..(p - 1) : rest[q] # "/") - 1)
  ELSE rest

\* new URL(baseUrl) succeeds: an http or https address with a host that is
\* not empty and holds no space
ParsesAsUrl(baseUrl) ==
  /\ Host(AfterScheme(baseUrl)) # <<>>
  /\ ~Includes(Host(AfterScheme(baseUrl)), SP)

RECURSIVE SearchParams(_, _)
\* key=value pairs joined by "&"
SearchParams(queryParams, keys) ==
  IF keys = {} THEN <<>>
  ELSE LET key == CHOOSE k \in keys : TRUE
       IN  key \o <<"=">> \o queryParams[key]
           \o (IF keys = {key} THEN <<>> ELSE <<"&">>)
           \o SearchParams(queryParams, keys \ {key})

\* url.toString() after the parameters were appended: the address gets the
\* path "/" when it has none
UrlToString(baseUrl, queryParams) ==
  baseUrl
  \o (IF Includes(AfterScheme(baseUrl), "/") THEN <<>> ELSE <<"/">>)
  \o <<"?">> \o SearchParams(queryParams, DOMAIN queryParams)

Thrown(name, msg, arg) ==
  [kind |-> "thrown", name |-> name, msg |-> msg, arg |-> arg]

buildFullUrl(baseUrl, queryParams) ==
  IF DOMAIN queryParams = {}
  THEN [ok |-> TRUE, url |-> baseUrl]
  ELSE IF ~ParsesAsUrl(baseUrl)
  THEN [ok |-> FALSE, url |-> <<>>]
  ELSE [ok |-> TRUE, url |-> UrlToString(baseUrl, queryParams)]

\* method === 'POST' && Object.keys(body).length > 0
SendsBody(method, body) == method = POST /\ Cardinality(DOMAIN body) > 0

\* !headers['Content-Type'] && !headers['content-type']
LacksContentType(headers) ==
  /\ Falsy(Get(headers, ContentType))
  /\ Falsy(Get(headers, ToLowerCase(ContentType)))

\* the configuration handed to axios
AxiosConfig(method, fullUrl, headers, body) ==
  [method |-> ToLowerCase(method),
   url |-> fullUrl,
   headers |-> IF SendsBody(method, body) /\ LacksContentType(headers)
               THEN Spread(headers, ContentType, "application/json")
               ELSE headers,
   timeout |-> TimeoutMs,
   hasData |-> SendsBody(method, body),
   data |-> IF SendsBody(method, body) THEN body ELSE NoKeys]

\* the request part of a returned record
RequestPart(req, fullUrl) ==
  [query |-> req.query, body |-> req.body, headers |-> req.headers,
   full_url |-> fullUrl]

Returned(req, fullUrl, status, start, stop, data) ==
  [kind |-> "returned",
   request |-> RequestPart(req, fullUrl),
   response |-> [http_status |-> status,
                 duration |-> stop - start,
                 request_start_timestamp |-> start,
                 request_stop_timestamp |-> stop,
                 response_data |-> data]]

\* { error: statusText }
ErrorObject(statusText) == [error |-> statusText]

\* error.response.data || { error: error.response.statusText }
DataOrStatusText(data, statusText) ==
  IF Falsy(data) THEN ErrorObject(statusText) ELSE data

(***************************************************************************)
(* Requests and settlements executeRequest is run on.                      *)
(***************************************************************************)
MaxTime == 2
Times == 0..MaxTime

HeaderNames ==
  {ContentType, ToLowerCase(ContentType), ToUpperCase(ContentType), Authorization}
HeaderValues == {"text/plain", ""}
HeaderObjects == UNION {[names -> HeaderValues] : names \in SUBSET HeaderNames}
QueryObjects == {NoKeys, [k \in {<<"k">>} |-> <<"1">>]}
BodyObjects == {NoKeys, [k \in {<<"a">>} |-> "1"]}
\* https://a, and https:// which the parser accepts and new URL() refuses
RequestUrls == {UrlA, HttpsScheme}

Requests ==
  [method : {GET, POST}, url : RequestUrls, headers : HeaderObjects,
   query : QueryObjects, body : BodyObjects]

Payloads == {"{\"received\":true}", "", "0", "false"}

Replies ==
  [kind : {"resolved"}, status : {200, 201}, statusText : {"OK"},
   data : Payloads, message : {""}]
  \cup
  [kind : {"response"}, status : {404}, statusText : {"Not Found"},
   data : Payloads \cup {"undefined"}, message : {"Request failed"}]
  \cup
  [kind : {"request"}, status : {0}, statusText : {""},
   data : {"undefined"}, message : {"timeout"}]
  \cup
  [kind : {"other"}, status : {0}, statusText : {""},
   data : {"undefined"}, message : {"Invalid configuration"}]

NoRequest ==
  [method |-> <<>>, url |-> <<>>, headers |-> NoKeys, query |-> NoKeys,
   body |-> NoKeys]
NoConfig == AxiosConfig(<<>>, <<>>, NoKeys, NoKeys)
NoReply ==
  [kind |-> "none", status |-> 0, statusText |-> "", data |-> "undefined",
   message |-> ""]
NoOutcome == [kind |-> "none"]

\* executeRequest has not been called
Idle ==
  /\ parsedRequest = NoRequest
  /\ xpc = "idle"
  /\ axiosConfig = NoConfig
  /\ requestStartTimestamp = 0
  /\ axiosCalls = 0
  /\ reply = NoReply
  /\ outcome = NoOutcome

(***************************************************************************)
(* parseReqline, one step per stage.                                       *)
(***************************************************************************)
NoResult ==
  [method |-> <<>>, url |-> <<>>, headers |-> EmptyObject,
   query |-> EmptyObject, body |-> EmptyObject]

Init ==
  /\ \/ MixedLine(shape)
     \/ SpacedLine(shape)
     \/ ProbeLine(shape)
     \/ BareLine(shape)
     \/ OrderedLine(shape)
  /\ reqline = Render(shape)
  /\ pc = "start"
  /\ segments = <<>>
  /\ i = 1
  /\ parsedSegments = <<>>
  /\ result = NoResult
  /\ error = NoError
  /\ previous = NoResult
  /\ Idle

Throw(e) ==
  /\ pc' = "failed"
  /\ error' = e

\* the emptiness check and splitByPipe; reqline is a string
Start ==
  /\ pc = "start"
  /\ IF Trim(reqline) = <<>>
     THEN /\ Throw(Err("Reqline statement cannot be empty"))
          /\ UNCHANGED segments
     ELSE LET split == SplitByPipe(reqline)
          IN  IF split.ok
              THEN /\ segments' = split.segments
                   /\ pc' = "classify"
                   /\ UNCHANGED error
              ELSE /\ Throw(split.error)
                   /\ UNCHANGED segments
  /\ UNCHANGED <<shape, reqline, i, parsedSegments, result>>
  /\ UNCHANGED <<previous, xvars>>

\* one iteration of the loop over the segments
Classify ==
  /\ pc = "classify"
  /\ i <= Len(segments)
  /\ LET seg == ParseSegment(segments[i])
     IN  IF ~seg.ok
         THEN /\ Throw(seg.error)
              /\ UNCHANGED <<i, parsedSegments>>
         ELSE IF Truthy(parsedSegments, seg.keyword)
         THEN /\ Throw(ErrArg("Duplicate keyword: ", seg.keyword))
              /\ UNCHANGED <<i, parsedSegments>>
         ELSE /\ parsedSegments' =
                   [k \in DOMAIN parsedSegments \cup {seg.keyword} |->
                      IF k = seg.keyword THEN seg.value ELSE parsedSegments[k]]
              /\ i' = i + 1
              /\ UNCHANGED <<pc, error>>
  /\ UNCHANGED <<shape, reqline, segments, result>>
  /\ UNCHANGED <<previous, xvars>>

KeywordOrder ==
  /\ pc = "classify"
  /\ i > Len(segments)
  /\ LET e == ValidateKeywordOrder(segments)
     IN  IF e # NoError
         THEN Throw(e)
         ELSE pc' = "required" /\ UNCHANGED error
  /\ UNCHANGED <<shape, reqline, segments, i, parsedSegments, result>>
  /\ UNCHANGED <<previous, xvars>>

RequiredKeywords ==
  /\ pc = "required"
  /\ LET e == ValidateRequiredKeywords(parsedSegments)
     IN  IF e # NoError
         THEN Throw(e)
         ELSE pc' = "assemble" /\ UNCHANGED error
  /\ UNCHANGED <<shape, reqline, segments, i, parsedSegments, result>>
  /\ UNCHANGED <<previous, xvars>>

\* the outcomes of decoding one optional section, {} when it is absent
Section(parsed, keyword) ==
  IF Truthy(parsed, keyword)
  THEN ParseJsonSection(parsed[keyword], keyword)
  ELSE {[ok |-> TRUE, value |-> EmptyObject, error |-> NoError]}

Assemble ==
  /\ pc = "assemble"
  /\ \E h \in Section(parsedSegments, HEADERS),
        q \in Section(parsedSegments, QUERY),
        b \in Section(parsedSegments, BODY) :
       IF ~h.ok THEN Throw(h.error) /\ UNCHANGED result
       ELSE IF ~q.ok THEN Throw(q.error) /\ UNCHANGED result
       ELSE IF ~b.ok THEN Throw(b.error) /\ UNCHANGED result
       ELSE /\ result' = [method |-> parsedSegments[HTTP],
                          url |-> parsedSegments[URL],
                          headers |-> h.value,
                          query |-> q.value,
                          body |-> b.value]
            /\ pc' = "done"
            /\ UNCHANGED error
  /\ UNCHANGED <<shape, reqline, segments, i, parsedSegments>>
  /\ UNCHANGED <<previous, xvars>>

Next == Start \/ Classify \/ KeywordOrder \/ RequiredKeywords \/ Assemble

Spec == Init /\ [][Next]_vars

\* parseReqline is called again, on the line followed by " | "; the handler
\* parses the line of each request it receives
Again ==
  /\ pc = "done"
  /\ reqline = Render(shape)
  /\ reqline' = reqline \o StdSep
  /\ previous' = result
  /\ pc' = "start"
  /\ segments' = <<>>
  /\ i' = 1
  /\ parsedSegments' = <<>>
  /\ result' = NoResult
  /\ error' = NoError
  /\ UNCHANGED <<shape, xvars>>

NextAgain == Start \/ Classify \/ KeywordOrder \/ RequiredKeywords \/ Assemble \/ Again

SpecAgain == Init /\ [][NextAgain]_vars

(***************************************************************************)
(* executeRequest, one step per stage.                                     *)
(***************************************************************************)
XInit ==
  /\ parsedRequest \in Requests
  /\ xpc = "called"
  /\ axiosConfig = NoConfig
  /\ requestStartTimestamp = 0
  /\ axiosCalls = 0
  /\ reply = NoReply
  /\ outcome = NoOutcome
  /\ shape = Plain(<<>>)
  /\ reqline = <<>>
  /\ pc = "idle"
  /\ segments = <<>>
  /\ i = 1
  /\ parsedSegments = <<>>
  /\ result = NoResult
  /\ error = NoError
  /\ previous = NoResult

\* the full URL and the axios configuration
Prepare ==
  /\ xpc = "called"
  /\ LET built == buildFullUrl(parsedRequest.url, parsedRequest.query)
     IN  IF ~built.ok
         THEN /\ xpc' = "thrown"
              /\ outcome' = Thrown("TypeError", "Invalid URL", parsedRequest.url)
              /\ UNCHANGED axiosConfig
         ELSE /\ axiosConfig' = AxiosConfig(parsedRequest.method, built.url,
                                            parsedRequest.headers, parsedRequest.body)
              /\ xpc' = "prepared"
              /\ UNCHANGED outcome
  /\ UNCHANGED <<parsedRequest, requestStartTimestamp, axiosCalls, reply, pvars>>

\* the start timestamp is taken and axios is called
Send ==
  /\ xpc = "prepared"
  /\ \E now \in Times : requestStartTimestamp' = now
  /\ axiosCalls' = axiosCalls + 1
  /\ xpc' = "awaiting"
  /\ UNCHANGED <<parsedRequest, axiosConfig, reply, outcome, pvars>>

\* the promise is fulfilled
AxiosResolves ==
  /\ xpc = "awaiting"
  /\ \E response \in Replies, now \in Times :
       /\ response.kind = "resolved"
       /\ reply' = response
       /\ outcome' = Returned(parsedRequest, axiosConfig.url, response.status,
                              requestStartTimestamp, now, response.data)
  /\ xpc' = "returned"
  /\ UNCHANGED <<parsedRequest, axiosConfig, requestStartTimestamp, axiosCalls, pvars>>

\* the promise is rejected: the catch block
AxiosRejects ==
  /\ xpc = "awaiting"
  /\ \E err \in Replies, now \in Times :
       /\ err.kind # "resolved"
       /\ reply' = err
       /\ IF err.kind = "response"
          THEN /\ outcome' = Returned(parsedRequest, axiosConfig.url, err.status,
                                      requestStartTimestamp, now,
                                      DataOrStatusText(err.data, err.statusText))
               /\ xpc' = "returned"
          ELSE IF err.kind = "request"
          THEN /\ outcome' = Thrown("Error", "Network error: Unable to reach ",
                                    axiosConfig.url)
               /\ xpc' = "thrown"
          ELSE /\ outcome' = Thrown("Error", "Request error: ", err.message)
               /\ xpc' = "thrown"
  /\ UNCHANGED <<parsedRequest, axiosConfig, requestStartTimestamp, axiosCalls, pvars>>

XNext == Prepare \/ Send \/ AxiosResolves \/ AxiosRejects

SpecExec == XInit /\ [][XNext]_vars

(***************************************************************************)
(* Vocabulary of the properties, stated on the line as it was written.     *)
(***************************************************************************)
Terminated == pc \in {"done", "failed"}
Parts == shape.parts

\* every pipe of the line stands in a separator " | " between two pieces
PlainlySpaced ==
  /\ shape.lead = <<>>
  /\ shape.tail = <<>>
  /\ \A k \in DOMAIN shape.seps : shape.seps[k] = StdSep
  /\ \A k \in DOMAIN Parts : ~Includes(PieceText(Parts[k]), PIPE)

Recognized(kw) == kw \in {HTTP, URL, HEADERS, QUERY, BODY}

HasScheme(text) ==
  \E n \in 1..Len(text) : SubSeq(text, 1, n) \in {HttpScheme, HttpsScheme}

\* keyword, one space, value
WellSpelled(p) ==
  /\ Recognized(p.kw)
  /\ p.gap = One
  /\ p.val # <<>>
  /\ p.val[1] # SP

\* a well-spelled piece whose method or URL value is acceptable
WellFormed(p) ==
  /\ WellSpelled(p)
  /\ p.kw = HTTP => p.val \in {GET, POST}
  /\ p.kw = URL => HasScheme(p.val)

NoDuplicates ==
  \A j, k \in DOMAIN Parts : j # k => Parts[j].kw # Parts[k].kw

Written(kw) == \E k \in DOMAIN Parts : Parts[k].kw = kw
ValueOf(kw) == Parts[CHOOSE k \in DOMAIN Parts : Parts[k].kw = kw].val

ResultSection(kw) ==
  CASE kw = HEADERS -> result.headers
    [] kw = QUERY -> result.query
    [] kw = BODY -> result.body

\* C1: every successful return is a complete record: the method is GET or
\* POST, the url begins with http:// or https://, and headers, query and
\* body are JSON objects, each the decoded value of its section where the
\* line has that section, in whatever place after URL, and {} where it has
\* not.
C1_CompleteRecord ==
  pc = "done" =>
    /\ result.method \in {GET, POST}
    /\ HasScheme(result.url)
    /\ \A kw \in {HEADERS, QUERY, BODY} :
         /\ ResultSection(kw).kind = "object"
         /\ IF Written(kw)
            THEN /\ JSONparse(ValueOf(kw)).ok
                 /\ ResultSection(kw).val = JSONparse(ValueOf(kw)).val
            ELSE ResultSection(kw) = EmptyObject

\* a line with BODY before HEADERS and no QUERY has been parsed
C1_Witness ==
  /\ pc = "done"
  /\ Len(Parts) = 4
  /\ Parts[3].kw = BODY
  /\ Parts[4].kw = HEADERS
  /\ result.headers.val # <<"{", "}">>
  /\ result.query = EmptyObject

ExactlyOneSpaceBefore(s, p) ==
  /\ p > 1
  /\ s[p - 1] = SP
  /\ p > 2 => s[p - 2] # SP

ExactlyOneSpaceAfter(s, p) ==
  /\ p < Len(s)
  /\ s[p + 1] = SP
  /\ p + 2 <= Len(s) => s[p + 2] # SP

BadlySpacedPipe(s) ==
  \E p \in DOMAIN s :
    /\ s[p] = PIPE
    /\ ~(ExactlyOneSpaceBefore(s, p) /\ ExactlyOneSpaceAfter(s, p))

\* C2: a non-empty line in which some pipe is not preceded by exactly one
\* space and followed by exactly one space fails with 'Invalid spacing
\* around pipe delimiter'.  Stated on the lines of two or more pieces with
\* one pipe between neighbours, the form of the cases the tests of the
\* repository give.
C2_PipeSpacing ==
  ( /\ Terminated
    /\ Trim(reqline) # <<>>
    /\ Len(Parts) >= 2
    /\ \A k \in DOMAIN shape.seps : shape.seps[k] # <<SP, PIPE, SP, PIPE, SP>>
    /\ BadlySpacedPipe(reqline) ) =>
    (pc = "failed" /\ error = Err("Invalid spacing around pipe delimiter"))

\* C3: a regularly spaced line of well-formed, non-duplicated segments whose
\* first keyword is not HTTP, a single-segment line included, fails with
\* 'HTTP keyword must be first'.
C3_HttpFirst ==
  ( /\ Terminated
    /\ PlainlySpaced
    /\ Len(Parts) >= 1
    /\ \A k \in DOMAIN Parts : WellFormed(Parts[k])
    /\ NoDuplicates
    /\ Parts[1].kw # HTTP ) =>
    (pc = "failed" /\ error = Err("HTTP keyword must be first"))

\* C4: a line of at least two well-formed, non-duplicated segments whose
\* first keyword is HTTP and whose second is HEADERS, QUERY or BODY fails
\* with 'Missing required URL keyword', also when URL comes later, and at
\* no point with 'URL keyword must be second'.
C4_UrlMissing ==
  ( /\ PlainlySpaced
    /\ Len(Parts) >= 2
    /\ \A k \in DOMAIN Parts : WellFormed(Parts[k])
    /\ NoDuplicates
    /\ Parts[1].kw = HTTP
    /\ Parts[2].kw \in {HEADERS, QUERY, BODY} ) =>
    /\ pc # "done"
    /\ error # Err("URL keyword must be second")
    /\ Terminated => error = Err("Missing required URL keyword")

\* HTTP, then HEADERS, then URL: the line has failed
C4_Witness ==
  /\ pc = "failed"
  /\ PlainlySpaced
  /\ Len(Parts) = 3
  /\ \A k \in DOMAIN Parts : WellFormed(Parts[k])
  /\ Parts[1].kw = HTTP
  /\ Parts[2].kw = HEADERS
  /\ Parts[3].kw = URL

Repeats(k) == \E j \in 1..(k - 1) : Parts[j].kw = Parts[k].kw
HasRepeat == \E k \in DOMAIN Parts : Repeats(k)
\* the place of the first segment whose keyword was seen before
FirstRepeat == CHOOSE k \in DOMAIN Parts : Repeats(k) /\ \A j \in 1..(k - 1) : ~Repeats(j)

\* C5 as claimed: a regularly spaced line in which a keyword occurs twice
\* fails with 'Duplicate keyword: K', K the first keyword repeated from the
\* left, whatever value the repeated segment carries.
C5_DuplicateAnyValue ==
  ( /\ Terminated
    /\ PlainlySpaced
    /\ HasRepeat
    /\ \A k \in 1..(FirstRepeat - 1) : WellFormed(Parts[k])
    /\ WellSpelled(Parts[FirstRepeat]) ) =>
    (pc = "failed" /\ error = ErrArg("Duplicate keyword: ", Parts[FirstRepeat].kw))

\* C5 as amended: the duplicate is reported when every segment up to and
\* including the repeated one passes classification; the JSON text of a
\* repeated HEADERS, QUERY or BODY segment does not matter.
C5_DuplicateNamed ==
  ( /\ Terminated
    /\ PlainlySpaced
    /\ HasRepeat
    /\ \A k \in 1..FirstRepeat : WellFormed(Parts[k]) ) =>
    (pc = "failed" /\ error = ErrArg("Duplicate keyword: ", Parts[FirstRepeat].kw))

\* a repeated keyword with another value than its first occurrence was reported
C5_Witness ==
  /\ pc = "failed"
  /\ PlainlySpaced
  /\ HasRepeat
  /\ error = ErrArg("Duplicate keyword: ", Parts[FirstRepeat].kw)
  /\ \E j \in 1..(FirstRepeat - 1) :
       /\ Parts[j].kw = Parts[FirstRepeat].kw
       /\ Parts[j].val # Parts[FirstRepeat].val

\* the line passes the structural validation
StructurallyValid ==
  /\ PlainlySpaced
  /\ Len(Parts) >= 2
  /\ \A k \in DOMAIN Parts : WellFormed(Parts[k])
  /\ NoDuplicates
  /\ Parts[1].kw = HTTP
  /\ Parts[2].kw = URL

NotAnObject(text) ==
  \/ ~JSONparse(text).ok
  \/ JSONparse(text).kind \in {"array", "string", "number", "boolean", "null"}

Faulty(kw) == Written(kw) /\ NotAnObject(ValueOf(kw))
\* the first faulty section in the order HEADERS, QUERY, BODY
FirstFaulty ==
  OPTIONAL_KEYWORDS[CHOOSE k \in 1..3 :
     /\ Faulty(OPTIONAL_KEYWORDS[k])
     /\ \A j \in 1..(k - 1) : ~Faulty(OPTIONAL_KEYWORDS[j])]

\* C6: a structurally valid line with a section S whose text does not
\* decode, or decodes to something else than an object, fails with
\* 'Invalid JSON format in S section', whatever the decoder's own message.
\* Stated for the first such section in the order the sections are decoded.
C6_InvalidJson ==
  ( /\ Terminated
    /\ StructurallyValid
    /\ \E kw \in {HEADERS, QUERY, BODY} : Faulty(kw) ) =>
    (pc = "failed" /\ error = Err(InvalidJsonMessage(FirstFaulty)))

Accepted(k) == k \in DOMAIN segments /\ i > k
\* the loop ended at segment k with an error
Rejected(k) == k \in DOMAIN segments /\ pc = "failed" /\ i = k
Reached(k) == Accepted(k) \/ Rejected(k)

HasSpace(seg) == \E p \in DOMAIN seg : seg[p] = SP
FirstSpace(seg) ==
  CHOOSE p \in DOMAIN seg : seg[p] = SP /\ \A q \in 1..(p - 1) : seg[q] # SP
LeadingToken(seg) == SubSeq(seg, 1, FirstSpace(seg) - 1)
AfterSpace(seg) == SubSeq(seg, FirstSpace(seg) + 1, Len(seg))

\* GET or POST in another letter case
MiscasedMethods ==
  ( {<<g, e, t>> : g \in {"G", "g"}, e \in {"E", "e"}, t \in {"T", "t"}}
    \cup {<<a, b, c, d>> : a \in {"P", "p"}, b \in {"O", "o"},
                           c \in {"S", "s"}, d \in {"T", "t"}} )
  \ {GET, POST}

\* C8: an HTTP segment with one space before its value is accepted only if
\* the value is GET or POST; GET or POST in another letter case fails with
\* 'HTTP method must be uppercase', every other value with 'Invalid HTTP
\* method. Only GET and POST are supported'.
C8_MethodValue ==
  \A k \in DOMAIN segments :
    ( /\ Reached(k)
      /\ HasSpace(segments[k])
      /\ LeadingToken(segments[k]) = HTTP
      /\ ~StartsWith(AfterSpace(segments[k]), <<SP>>) ) =>
      LET v == AfterSpace(segments[k])
      IN  /\ Accepted(k) => v \in {GET, POST}
          /\ v \notin {GET, POST} =>
               /\ Rejected(k)
               /\ error = IF v \in MiscasedMethods
                          THEN Err("HTTP method must be uppercase")
                          ELSE Err("Invalid HTTP method. Only GET and POST are supported")

\* 'HTTP post' was rejected for its letter case
C8_Witness ==
  \E k \in DOMAIN segments :
    /\ Rejected(k)
    /\ segments[k] = HTTP \o <<SP>> \o ToLowerCase(POST)
    /\ error = Err("HTTP method must be uppercase")

\* C9: a segment whose leading token is not exactly HTTP, URL, HEADERS,
\* QUERY or BODY fails with 'Keywords must be uppercase' when the token in
\* lowercase is a recognized keyword in lowercase, and with 'Invalid
\* keyword: <token>' otherwise.
C9_KeywordToken ==
  \A k \in DOMAIN segments :
    ( /\ Reached(k)
      /\ HasSpace(segments[k])
      /\ ~Recognized(LeadingToken(segments[k])) ) =>
      LET token == LeadingToken(segments[k])
      IN  /\ Rejected(k)
          /\ error = IF \E kw \in {HTTP, URL, HEADERS, QUERY, BODY} :
                          ToLowerCase(token) = ToLowerCase(kw)
                     THEN Err("Keywords must be uppercase")
                     ELSE ErrArg("Invalid keyword: ", token)

\* the third segment 'body ...' was rejected for the case of its keyword
C9_Witness ==
  \E k \in DOMAIN segments :
    /\ Rejected(k)
    /\ k = 3
    /\ HasSpace(segments[k])
    /\ LeadingToken(segments[k]) = ToLowerCase(BODY)
    /\ error = Err("Keywords must be uppercase")

TwoSpacesAfterToken(seg) == HasSpace(seg) /\ StartsWith(AfterSpace(seg), <<SP>>)

\* C10 as claimed: a segment with two or more spaces between its leading
\* token and its value fails with 'Multiple spaces found where single space
\* expected', whatever the leading token.
C10_MultipleSpacesAnyToken ==
  \A k \in DOMAIN segments :
    (Reached(k) /\ TwoSpacesAfterToken(segments[k])) =>
      /\ Rejected(k)
      /\ error = Err("Multiple spaces found where single space expected")

\* C10 as amended: such a segment fails with 'Multiple spaces found where
\* single space expected' when its leading token is a recognized keyword in
\* uppercase, and with the error of the keyword ('Keywords must be
\* uppercase', 'Invalid keyword: <token>') when it is not; never with
\* 'Missing space after keyword'.
C10_MultipleSpaces ==
  \A k \in DOMAIN segments :
    (Reached(k) /\ TwoSpacesAfterToken(segments[k])) =>
      /\ Rejected(k)
      /\ IF Recognized(LeadingToken(segments[k]))
         THEN error = Err("Multiple spaces found where single space expected")
         ELSE error \in {Err("Keywords must be uppercase"),
                         ErrArg("Invalid keyword: ", LeadingToken(segments[k]))}

\* 'URL  https://a' was rejected for its two spaces
C10_Witness ==
  \E k \in DOMAIN segments :
    /\ Rejected(k)
    /\ segments[k] = URL \o <<SP, SP>> \o UrlA
    /\ error = Err("Multiple spaces found where single space expected")

\* C11: a non-empty trimmed segment without a space (a keyword glued to its
\* value, a keyword alone, 'URL ' once trimmed) fails with 'Missing space
\* after keyword', whether or not its text is a recognized keyword.
C11_MissingSpace ==
  \A k \in DOMAIN segments :
    (Reached(k) /\ segments[k] # <<>> /\ ~HasSpace(segments[k])) =>
      /\ Rejected(k)
      /\ error = Err("Missing space after keyword")

\* the line 'HTTP GET | URL ' was rejected at its second segment, 'URL'
C11_Witness ==
  /\ reqline = HTTP \o <<SP>> \o GET \o StdSep \o URL \o <<SP>>
  /\ Rejected(2)
  /\ segments[2] = URL
  /\ error = Err("Missing space after keyword")

\* C12: a URL segment with one space before its value is accepted if and
\* only if the value begins with http:// or https:// in lowercase; other
\* values fail with 'URL must start with http:// or https://'; an accepted
\* value, embedded spaces included, is the url of the result unchanged.
C12_UrlValue ==
  \A k \in DOMAIN segments :
    ( /\ Reached(k)
      /\ HasSpace(segments[k])
      /\ LeadingToken(segments[k]) = URL
      /\ ~StartsWith(AfterSpace(segments[k]), <<SP>>) ) =>
      LET v == AfterSpace(segments[k])
      IN  /\ ~HasScheme(v) =>
               /\ Rejected(k)
               /\ error = Err("URL must start with http:// or https://")
          /\ (HasScheme(v) /\ Rejected(k)) =>
               error = ErrArg("Duplicate keyword: ", URL)
          /\ Accepted(k) => (HasScheme(v) /\ parsedSegments[URL] = v)
          /\ pc = "done" => result.url = v

\* a URL with an embedded space was returned as written
C12_Witness ==
  /\ pc = "done"
  /\ result.url = UrlSpaced
  /\ segments[2] = URL \o <<SP>> \o UrlSpaced

\* the line breaks a structural rule: a keyword repeated, HTTP not first,
\* URL not second
StructuralViolation ==
  \/ HasRepeat
  \/ Parts[1].kw # HTTP
  \/ Parts[2].kw # URL

MethodOrUrlViolation(p) ==
  \/ p.kw = HTTP /\ p.val \notin {GET, POST}
  \/ p.kw = URL /\ ~HasScheme(p.val)

\* the line breaks a value rule: method, URL scheme, JSON section
ValueViolation ==
  \E k \in DOMAIN Parts :
    \/ MethodOrUrlViolation(Parts[k])
    \/ Parts[k].kw \in {HEADERS, QUERY, BODY} /\ NotAnObject(Parts[k].val)

StructuralErrors ==
  { Err("HTTP keyword must be first"), Err("URL keyword must be second"),
    Err("Missing required URL keyword"), Err("Missing required HTTP keyword") }
  \cup { ErrArg("Duplicate keyword: ", kw) : kw \in {HTTP, URL, HEADERS, QUERY, BODY} }

MethodOrUrlErrors ==
  { Err("HTTP method must be uppercase"),
    Err("Invalid HTTP method. Only GET and POST are supported"),
    Err("URL must start with http:// or https://") }

\* the line has both kinds of violation, under regular spacing and
\* well-spelled segments
BothViolations ==
  /\ PlainlySpaced
  /\ Len(Parts) >= 2
  /\ \A k \in DOMAIN Parts : WellSpelled(Parts[k])
  /\ StructuralViolation
  /\ ValueViolation

\* segment k stops the classification: a bad method or URL value, or a
\* keyword seen before
Stops(k) == MethodOrUrlViolation(Parts[k]) \/ Repeats(k)

\* C15 as claimed: on a line with a structural and a value violation the
\* structural error is the one reported, and no result is returned.
C15_StructureBeforeValues ==
  (Terminated /\ BothViolations) =>
    /\ pc = "failed"
    /\ error \in StructuralErrors
    /\ result = NoResult

\* C15 as amended: method and URL values are checked while their segment is
\* classified, together with the duplicate test, segment by segment; the
\* first segment with a bad method or URL value or a repeated keyword gives
\* the error.  Order and presence of HTTP and URL are validated after all
\* segments are classified, and JSON sections are decoded last, so a
\* structural violation is reported ahead of every JSON violation.  No
\* result is returned unless every stage passed.
C15_StagesInOrder ==
  /\ pc # "done" => result = NoResult
  /\ (Terminated /\ BothViolations) =>
       /\ pc = "failed"
       /\ IF \E k \in DOMAIN Parts : Stops(k)
          THEN LET k == CHOOSE k \in DOMAIN Parts :
                          Stops(k) /\ \A j \in 1..(k - 1) : ~Stops(j)
               IN  /\ Rejected(k)
                   /\ IF MethodOrUrlViolation(Parts[k])
                      THEN error \in MethodOrUrlErrors
                      ELSE error = ErrArg("Duplicate keyword: ", Parts[k].kw)
          ELSE /\ i = Len(segments) + 1
               /\ error = IF Parts[1].kw # HTTP
                          THEN Err("HTTP keyword must be first")
                          ELSE Err("Missing required URL keyword")

\* HTTP, a section that is not an object, then URL: all three segments were
\* classified and the structural error was reported
C15_Witness ==
  /\ pc = "failed"
  /\ BothViolations
  /\ \A k \in DOMAIN Parts : WellFormed(Parts[k])
  /\ Parts[1].kw = HTTP
  /\ Faulty(Parts[2].kw)
  /\ i = Len(segments) + 1
  /\ error = Err("Missing required URL keyword")

\* C16: when validateRequiredKeywords is reached HTTP and URL are present
\* with non-blank values, so it raises nothing; no run raises 'Missing
\* required HTTP keyword', 'URL keyword must be second' or 'URL cannot be
\* empty': the second segment that reaches validateKeywordOrder begins with
\* a recognized keyword and every classified value is non-blank.
C16_DeadChecks ==
  /\ pc = "required" =>
       /\ Truthy(parsedSegments, HTTP) /\ Trim(parsedSegments[HTTP]) # <<>>
       /\ Truthy(parsedSegments, URL) /\ Trim(parsedSegments[URL]) # <<>>
       /\ ValidateRequiredKeywords(parsedSegments) = NoError
  /\ error \notin { Err("Missing required HTTP keyword"),
                    Err("URL keyword must be second"),
                    Err("URL cannot be empty") }
  /\ (pc = "classify" /\ i > Len(segments)) =>
       /\ HasSpace(segments[2])
       /\ Recognized(LeadingToken(segments[2]))
  /\ \A kw \in DOMAIN parsedSegments : Trim(parsedSegments[kw]) # <<>>

\* validateRequiredKeywords was reached for a line with an optional section
C16_Witness ==
  /\ pc = "required"
  /\ Len(segments) = 3
  /\ DOMAIN parsedSegments = {HTTP, URL, BODY}

HasPipe(text) == Includes(text, PIPE)

\* the parts of the line written with a pipe inside the value
PipedParts == {k \in DOMAIN Parts : HasPipe(Parts[k].val)}

\* C17: every pipe is a delimiter.  No segment, classified value or
\* returned value contains '|'; a line written with a pipe inside a URL or
\* JSON value, a JSON string literal included, fails or is split at that
\* pipe, and is never returned with that text as the value.
C17_PipesAlwaysDelimit ==
  /\ \A k \in DOMAIN segments : ~HasPipe(segments[k])
  /\ \A kw \in DOMAIN parsedSegments : ~HasPipe(parsedSegments[kw])
  /\ pc = "done" =>
       /\ ~HasPipe(result.url)
       /\ \A kw \in {HEADERS, QUERY, BODY} : ~HasPipe(ResultSection(kw).val)
  /\ (pc = "done" /\ shape.lead = <<>> /\ shape.tail = <<>> /\ PipedParts # {}) =>
       /\ Len(segments) > Len(Parts)
       /\ \A k \in PipedParts :
            /\ Parts[k].kw = URL => result.url # Parts[k].val
            /\ Parts[k].kw \in {HEADERS, QUERY, BODY} =>
                 ResultSection(Parts[k].kw).val # JSONparse(Parts[k].val).val

\* the line written as HTTP and a URL 'https://a | QUERY {}' was split at the
\* inner pipe and returned with the url 'https://a'
C17_Witness ==
  /\ pc = "done"
  /\ Len(Parts) = 2
  /\ Parts[2] = Piece(URL, One, UrlThenQuery)
  /\ Len(segments) = 3
  /\ result.url = UrlA

\* the position of the last pipe of text, 0 when it has none
LastPipe(text) ==
  IF HasPipe(text)
  THEN CHOOSE p \in DOMAIN text :
         text[p] = PIPE /\ \A q \in (p + 1)..Len(text) : text[q] # PIPE
  ELSE 0
AfterLastPipe(text) == SubSeq(text, LastPipe(text) + 1, Len(text))

DoublePipe == <<SP, PIPE, SP, PIPE, SP>>

\* the current call parses the line as written followed by " | "
SecondCall == reqline = Render(shape) \o StdSep

\* an empty piece that ends at a pipe is kept as a segment, and classifying
\* it fails with 'Empty segment found'
EmptyPieceKept ==
  /\ \A k \in DOMAIN segments :
       (Reached(k) /\ segments[k] = <<>>) =>
         (Rejected(k) /\ error = Err("Empty segment found"))
  /\ (segments # <<>> /\ \E k \in DOMAIN shape.seps : shape.seps[k] = DoublePipe) =>
       \E j \in DOMAIN segments : segments[j] = <<>>
  /\ (Terminated /\ \E j \in DOMAIN segments : segments[j] = <<>>) => pc = "failed"

\* C18 as claimed: every line L that parses successfully parses to the same
\* result when followed by " | ", while an empty piece that ends at a pipe
\* is kept and fails with 'Empty segment found'.
C18_AppendedPipeAnyLine ==
  /\ (SecondCall /\ Terminated) => (pc = "done" /\ result = previous)
  /\ EmptyPieceKept

\* C18 as amended: the line followed by " | " parses to the same result
\* when the text after the last pipe of L is not blank; when it is blank, L
\* parsed because that text was dropped, the appended pipe turns it into an
\* empty segment, and the longer line fails with 'Empty segment found'.
\* An empty piece that ends at a pipe is kept and fails with that error.
C18_AppendedPipe ==
  /\ (SecondCall /\ Terminated) =>
       IF Trim(AfterLastPipe(Render(shape))) # <<>>
       THEN pc = "done" /\ result = previous
       ELSE pc = "failed" /\ error = Err("Empty segment found")
  /\ EmptyPieceKept

\* a line with an optional section, followed by " | ", was parsed to the
\* result of the line itself, from the same number of segments
C18_Witness ==
  /\ SecondCall
  /\ pc = "done"
  /\ previous # NoResult
  /\ result = previous
  /\ Len(segments) = Len(Parts)
  /\ Len(Parts) >= 3

ExecEnded == xpc \in {"returned", "thrown"}

\* the headers hold a content-type header under some letter casing
HasContentType(headers) ==
  \E name \in DOMAIN headers : ToLowerCase(name) = ToLowerCase(ContentType)

\* C13: the body is attached as data if and only if the method is POST and
\* the body has a key; 'Content-Type: application/json' is added if and only
\* if data is attached and the given headers have no content-type header
\* under any letter casing; otherwise the outgoing headers are the given
\* headers, and no data is sent unless attached.  Stated for given headers
\* whose values are not empty.
C13_ContentTypeDefault ==
  ( /\ xpc \in {"prepared", "awaiting", "returned"}
    /\ \A name \in DOMAIN parsedRequest.headers : parsedRequest.headers[name] # "" ) =>
    LET given == parsedRequest.headers
        attach == parsedRequest.method = POST /\ DOMAIN parsedRequest.body # {}
    IN  /\ axiosConfig.hasData <=> attach
        /\ attach => axiosConfig.data = parsedRequest.body
        /\ IF attach /\ ~HasContentType(given)
           THEN /\ DOMAIN axiosConfig.headers = DOMAIN given \cup {ContentType}
                /\ axiosConfig.headers[ContentType] = "application/json"
                /\ \A name \in DOMAIN given : axiosConfig.headers[name] = given[name]
           ELSE axiosConfig.headers = given

\* C14: every call of executeRequest issues one HTTP call and ends in one of
\* four outcomes: the response returned with its status and payload; an
\* error response returned with its status and payload, or {error: status
\* text} when it has no payload; 'Network error: Unable to reach <full URL>'
\* raised; 'Request error: <message>' raised.  A returned duration is the
\* stop timestamp minus the start timestamp.
C14_FourOutcomes ==
  ExecEnded =>
    /\ axiosCalls = 1
    /\ reply.kind \in {"resolved", "response", "request", "other"}
    /\ reply.kind = "resolved" =>
         /\ outcome.kind = "returned"
         /\ outcome.response.http_status = reply.status
         /\ outcome.response.response_data = reply.data
    /\ reply.kind = "response" =>
         /\ outcome.kind = "returned"
         /\ outcome.response.http_status = reply.status
         /\ outcome.response.response_data =
              IF reply.data \in {"undefined", ""}
              THEN [error |-> reply.statusText]
              ELSE reply.data
    /\ reply.kind = "request" =>
         outcome = [kind |-> "thrown", name |-> "Error",
                    msg |-> "Network error: Unable to reach ",
                    arg |-> axiosConfig.url]
    /\ reply.kind = "other" =>
         outcome = [kind |-> "thrown", name |-> "Error",
                    msg |-> "Request error: ", arg |-> reply.message]
    /\ outcome.kind = "returned" =>
         outcome.response.duration =
           outcome.response.request_stop_timestamp
             - outcome.response.request_start_timestamp

====
